---- MODULE Spec2Model ----
(***************************************************************************)
(* A model of src/quantization/binarize.py: the model-surgery function     *)
(* binarizer, and the two binarized linear layers (BinarizedLinear with    *)
(* BinaryLinearFunction, IRLinear with IRLinearFunction).                  *)
(*                                                                         *)
(* Two specifications share the variables:                                 *)
(*   SpecSurgery  repeated binarizer calls on a transformer model;         *)
(*   SpecLayer    one BinarizedLinear or IRLinear layer: forward,          *)
(*                backward, optimizer steps, t and reset_parameters.       *)
(* Each leaves the variables of the other at their idle values.            *)
(***************************************************************************)
EXTENDS Integers, Sequences, FiniteSets, TLC

VARIABLES
    model,      \* model.transformer.h: a sequence of blocks
    calls,      \* number of binarizer calls made so far
    lastCall,   \* arguments and outcome of the most recent binarizer call
    layer,      \* the layer instance under test (SpecLayer)
    ctx,        \* the saved context of the in-flight forward, or NoCtx
    res         \* the result of the most recent layer operation

vars == <<model, calls, lastCall, layer, ctx, res>>

(***************************************************************************)
(* Bounds of the model.                                                    *)
(***************************************************************************)
MaxBlocks == 2      \* len(model.transformer.h) ranges over 0..MaxBlocks
MaxCalls == 2       \* binarizer is called at most this many times

\* Python's None where a tensor may stand.  Where None may stand, a vector or
\* a matrix x is Tensor(x) and a 0-dimensional tensor holding v is Scalar(v).
None == [none |-> TRUE]
Tensor(x) == [data |-> x]
Scalar(v) == [item |-> v]

\* The outcome of a call that returned normally.
NoException == "no exception"

(***************************************************************************)
(* Model surgery: binarizer.                                               *)
(*                                                                         *)
(* A sub-layer is a record: type is the exact Python type of the module    *)
(* ("Linear" is nn.Linear; "Other" is any other module class, a subclass   *)
(* of or a wrapper around nn.Linear included), born identifies the object: *)
(* 0 for a module of the original model, n for one constructed by the n-th *)
(* binarizer call.  Two records at the same position denote the same       *)
(* object iff they are equal.  A group (block.mlp, block.attn) is the      *)
(* ordered sequence of its named children; it is taken to support item     *)
(* assignment by name, as line 196 and line 209 require, and its children  *)
(* are distinct objects.                                                   *)
(***************************************************************************)
Child(name, type, inf, outf) ==
    [name |-> name,
     layer |-> [type |-> type, in_features |-> inf, out_features |-> outf,
                bias |-> TRUE, t |-> None, born |-> 0]]

\* The group shapes the initial models are built from.
SplitAttention ==
    << Child("c_attn_q", "Linear", 2, 2), Child("c_attn_k", "Linear", 2, 2),
       Child("c_attn_v", "Linear", 2, 2), Child("c_proj", "Linear", 2, 2),
       Child("resid_dropout", "Other", 0, 0) >>

FeedForward ==
    << Child("c_fc", "Linear", 2, 8), Child("gelu", "Other", 0, 0),
       Child("c_proj", "Linear", 8, 2) >>

Wrapped ==
    << Child("c_attn_q", "Other", 2, 4), Child("c_attn_k", "Linear", 2, 4),
       Child("c_attn_v", "Linear", 4, 2), Child("c_attn_q2", "Linear", 1, 3) >>

MlpLayouts == { FeedForward, Wrapped }
AttnLayouts == { SplitAttention, << >> }

Blocks == [mlp : MlpLayouts, attn : AttnLayouts]

Kinds == {"basic", "ir", "binary"}      \* "binary" stands for any other value
ValidKinds == {"basic", "ir"}

\* BinarizedLinear(in_features, out_features), lines 54-65, constructed by
\* call number n: bias defaults to True.
BinarizedLinear(inf, outf, n) ==
    [type |-> "BinarizedLinear", in_features |-> inf, out_features |-> outf,
     bias |-> TRUE, t |-> None, born |-> n]

\* IRLinear(in_features, out_features), lines 138-150: t starts as None.
IRLinear(inf, outf, n) ==
    [type |-> "IRLinear", in_features |-> inf, out_features |-> outf,
     bias |-> TRUE, t |-> None, born |-> n]

\* A plausible slip: each flag paired with the second letter of its name.
SkippedShifted(name, qk_only, qv_only, kv_only) ==
    \/ kv_only /\ name = "c_attn_v"
    \/ qv_only /\ name = "c_attn_v"
    \/ qk_only /\ name = "c_attn_k"

\* The three name filters of lines 185-190 and 199-204.
Skipped(name, qk_only, qv_only, kv_only) ==
    \/ kv_only /\ name = "c_attn_q"
    \/ qv_only /\ name = "c_attn_k"
    \/ qk_only /\ name = "c_attn_v"

\* A plausible slip: a duck-typed test, true of every layer with weights.
IsDenseDuck(l) == l.type \in {"Linear", "BinarizedLinear", "IRLinear"}

\* Line 183, line 198: the exact-type test.
IsDense(l) == l.type = "Linear"

\* One pass of a "for sub_name, sub_layer in ... named_children()" loop from
\* child i on; the result carries the group and the exception raised, if
\* any.  With a kind that is neither "basic" nor "ir" no branch binds
\* b, and the assignment of line 196 / 209 raises UnboundLocalError.
RECURSIVE GroupLoop(_, _, _, _, _, _, _)
GroupLoop(group, i, kind, qk_only, qv_only, kv_only, n) ==
    IF i > Len(group) THEN [group |-> group, raised |-> NoException]
    ELSE LET c == group[i] IN
         IF ~IsDense(c.layer) \/ Skipped(c.name, qk_only, qv_only, kv_only)
         THEN GroupLoop(group, i + 1, kind, qk_only, qv_only, kv_only, n)
         ELSE IF kind = "basic"
         THEN GroupLoop([group EXCEPT ![i].layer =
                            BinarizedLinear(c.layer.in_features, c.layer.out_features, n)],
                        i + 1, kind, qk_only, qv_only, kv_only, n)
         ELSE IF kind = "ir"
         THEN GroupLoop([group EXCEPT ![i].layer =
                            IRLinear(c.layer.in_features, c.layer.out_features, n)],
                        i + 1, kind, qk_only, qv_only, kv_only, n)
         ELSE [group |-> group, raised |-> "UnboundLocalError"]

\* The body of the outer loop for one block: the mlp group, then the attn group.
BlockBody(block, kind, qk_only, qv_only, kv_only, n) ==
    LET m == GroupLoop(block.mlp, 1, kind, qk_only, qv_only, kv_only, n) IN
    IF m.raised # NoException
    THEN [block |-> [block EXCEPT !.mlp = m.group], raised |-> m.raised]
    ELSE LET a == GroupLoop(block.attn, 1, kind, qk_only, qv_only, kv_only, n) IN
         [block |-> [mlp |-> m.group, attn |-> a.group], raised |-> a.raised]

\* "for i, block in enumerate(model.transformer.h)" from block i on.
RECURSIVE BlockLoop(_, _, _, _, _, _, _)
BlockLoop(h, i, kind, qk_only, qv_only, kv_only, n) ==
    IF i > Len(h) THEN [h |-> h, raised |-> NoException]
    ELSE LET b == BlockBody(h[i], kind, qk_only, qv_only, kv_only, n) IN
         IF b.raised # NoException
         THEN [h |-> [h EXCEPT ![i] = b.block], raised |-> b.raised]
         ELSE BlockLoop([h EXCEPT ![i] = b.block], i + 1,
                        kind, qk_only, qv_only, kv_only, n)

NoCall == [kind |-> "no call", qk_only |-> FALSE, qv_only |-> FALSE,
           kv_only |-> FALSE, raised |-> NoException]

\* binarizer(model, binarize_layer, qk_only, qv_only, kv_only)
binarizer(kind, qk_only, qv_only, kv_only) ==
    /\ calls < MaxCalls
    /\ LET r == BlockLoop(model, 1, kind, qk_only, qv_only, kv_only, calls + 1) IN
       /\ model' = r.h
       /\ lastCall' = [kind |-> kind, qk_only |-> qk_only, qv_only |-> qv_only,
                       kv_only |-> kv_only, raised |-> r.raised]
    /\ calls' = calls + 1
    /\ UNCHANGED <<layer, ctx, res>>

NoCtx == None
NoRes == [op |-> "none"]
NoLayer == [type |-> "none"]

InitSurgery ==
    /\ \E n \in 0..MaxBlocks : model \in [1..n -> Blocks]
    /\ calls = 0
    /\ lastCall = NoCall
    /\ layer = NoLayer
    /\ ctx = NoCtx
    /\ res = NoRes

NextSurgery ==
    \E kind \in Kinds, qk_only \in BOOLEAN, qv_only \in BOOLEAN, kv_only \in BOOLEAN :
        binarizer(kind, qk_only, qv_only, kv_only)

SpecSurgery == InitSurgery /\ [][NextSurgery]_vars

(***************************************************************************)
(* Claims about binarizer.                                                 *)
(***************************************************************************)
Groups == {"mlp", "attn"}
Binarized == {"BinarizedLinear", "IRLinear"}
TypeOfKind(kind) == IF kind = "basic" THEN "BinarizedLinear" ELSE "IRLinear"

\* The positions of a model: <<block index, group, index in the group>>.
Positions(h) ==
    { p \in (1..Len(h)) \X Groups \X (1..5) : p[3] <= Len(h[p[1]][p[2]]) }
At(h, p) == h[p[1]][p[2]][p[3]]

\* The step is a binarizer call.
IsCall == calls' = calls + 1

\* The hierarchy keeps its shape and names over a step.
SameShape ==
    /\ Len(model') = Len(model)
    /\ \A i \in 1..Len(model) : \A g \in Groups :
          /\ Len(model'[i][g]) = Len(model[i][g])
          /\ \A j \in 1..Len(model[i][g]) : model'[i][g][j].name = model[i][g][j].name

\* The skipped names as the claim states them.
ClaimSkips(name, c) ==
    \/ c.kv_only /\ name = "c_attn_q"
    \/ c.qv_only /\ name = "c_attn_k"
    \/ c.qk_only /\ name = "c_attn_v"

\* C1: a binarizer call with kind "basic" or "ir" returns normally, and then
\* in every block and both groups a sub-layer is replaced iff its type is
\* exactly the dense type and its name is not skipped by the flags; a
\* replaced position holds a new object of the requested binarized type with
\* the same in_features and out_features under the same name, and every
\* other sub-layer is the object it was.
C1_ReplacedIffDenseAndNotSkipped ==
    [][ (IsCall /\ lastCall'.kind \in ValidKinds) =>
          /\ lastCall'.raised = NoException
          /\ SameShape
          /\ \A p \in Positions(model) :
                LET old == At(model, p).layer
                    new == At(model', p).layer
                IN  IF old.type = "Linear" /\ ~ClaimSkips(At(model, p).name, lastCall')
                    THEN /\ new.type = TypeOfKind(lastCall'.kind)
                         /\ new.in_features = old.in_features
                         /\ new.out_features = old.out_features
                         /\ new.born = calls'
                         /\ new # old
                    ELSE new = old ]_vars

\* C1 witness: after a call with kind "ir" and kv_only, a dense c_attn_q is
\* still the original object, a dense c_attn_k has been replaced by a new
\* IRLinear, and a sub-layer of another type is untouched.
C1_Witness ==
    /\ lastCall.kind = "ir" /\ lastCall.kv_only /\ lastCall.raised = NoException
    /\ \E p, q, r \in Positions(model) :
          /\ At(model, p).name = "c_attn_q" /\ At(model, p).layer.type = "Linear"
          /\ At(model, p).layer.born = 0
          /\ At(model, q).name = "c_attn_k" /\ At(model, q).layer.type = "IRLinear"
          /\ At(model, q).layer.born = calls
          /\ At(model, r).layer.type = "Other"

\* C2 (as claimed): a binarizer call with a kind that is neither "basic" nor
\* "ir" raises an error, whatever the model and the flags, and leaves every
\* sub-layer in place.
C2_BadKindAlwaysFails ==
    [][ (IsCall /\ lastCall'.kind \notin ValidKinds) =>
          (lastCall'.raised # NoException /\ model' = model) ]_vars

\* C10: over any sequence of binarizer calls with kinds "basic" or "ir", a
\* position holding a binarized layer keeps the same object in the next
\* call; a call only replaces sub-layers that were still dense; and a call
\* with the arguments of the previous call changes nothing.
C10_ReplacedOnce ==
    [][ (IsCall /\ lastCall'.kind \in ValidKinds) =>
          /\ SameShape
          /\ \A p \in Positions(model) :
                /\ At(model, p).layer.type \in Binarized => At(model', p) = At(model, p)
                /\ At(model', p) # At(model, p) =>
                      At(model, p).layer.type = "Linear" /\ At(model, p).layer.born = 0
          /\ ( /\ lastCall.kind = lastCall'.kind
               /\ lastCall.qk_only = lastCall'.qk_only
               /\ lastCall.qv_only = lastCall'.qv_only
               /\ lastCall.kv_only = lastCall'.kv_only ) => model' = model ]_vars

\* C10 witness: after two calls, one position holds the layer the first call
\* made, and another, skipped by the first call, the layer the second made.
C10_Witness ==
    /\ calls = 2 /\ lastCall.kind \in ValidKinds
    /\ \E p, q \in Positions(model) :
          /\ At(model, p).layer.type = "BinarizedLinear" /\ At(model, p).layer.born = 1
          /\ At(model, q).layer.type = "IRLinear" /\ At(model, q).layer.born = 2
          /\ At(model, q).name = "c_attn_v"

(***************************************************************************)
(* Tensor data.  A matrix is a sequence of rows; a vector is a sequence.    *)
(* The elements are integers: the model computes exactly where the code    *)
(* computes in floating point.                                             *)
(***************************************************************************)
MaxX == 1           \* the elements of an input range over 0..MaxX

\* The weights explored.  BinarizedLinear: one value in each class lines 15
\* and 16 tell apart (below -1, -1, between, 1, above 1).
WeightValues(type) == IF type = "BinarizedLinear" THEN {-2, -1, 0, 1, 2} ELSE {0, 1}

\* The elements of the output gradients explored.
GradValues == {-1, 1}

\* <<batch, in_features, out_features>> of the calls explored: each of the
\* three contractions (over in_features at lines 21 and 104, over
\* out_features at lines 36 and 120, over the batch at lines 40 and 123) runs
\* over more than one term in one of them.  An IRLinear has one weight, two
\* or three.
Shapes(type) ==
    IF type = "BinarizedLinear"
    THEN { <<1, 2, 1>>, <<2, 1, 1>>, <<1, 1, 2>> }
    ELSE { <<1, 2, 1>>, <<2, 1, 1>>, <<1, 1, 3>> }

Matrices(r, c, V) == [1..r -> [1..c -> V]]
Vectors(n, V) == [1..n -> V]

RECURSIVE SumSeq(_)
SumSeq(s) == IF s = << >> THEN 0 ELSE Head(s) + SumSeq(Tail(s))

\* torch.Tensor.matmul on two matrices.
MatMul(A, B) ==
    [i \in 1..Len(A) |->
        [j \in 1..Len(B[1]) |-> SumSeq([l \in 1..Len(B) |-> A[i][l] * B[l][j]])]]

\* Tensor.t(), Tensor.transpose(-1, -2).
Transpose(A) == [j \in 1..Len(A[1]) |-> [i \in 1..Len(A) |-> A[i][j]]]

\* "output += bias": the bias is broadcast over the rows.
AddBias(A, bias) == [i \in 1..Len(A) |-> [j \in 1..Len(A[1]) |-> A[i][j] + bias[j]]]

\* Tensor.sum(0): the sum over the rows.
Sum0(A) == [j \in 1..Len(A[1]) |-> SumSeq([i \in 1..Len(A) |-> A[i][j]])]

\* Tensor.squeeze(0): drops the first dimension when its size is 1.
Squeeze0(v) == IF Len(v) = 1 THEN Scalar(v[1]) ELSE Tensor(v)

(***************************************************************************)
(* BinaryLinearFunction and BinarizedLinear.                               *)
(***************************************************************************)
\* A plausible slip: sign without the zero case.
SignNoZero(w) == IF w >= 0 THEN 1 ELSE -1

\* torch.sign, elementwise: sign(0) = 0.
Sign(w) == IF w > 0 THEN 1 ELSE IF w < 0 THEN -1 ELSE 0

\* A plausible slip: the saturation test made inclusive.
MaskedInclusive(w) == (w >= 1) \/ (w <= -1)

\* Line 15, one element: (weight > 1) | (weight < -1).
Masked(w) == (w > 1) \/ (w < -1)

\* BinaryLinearFunction.forward(ctx, input, weight, bias): the saved context
\* and the output.  needs is ctx.needs_input_grad, set by autograd from the
\* requires_grad of the arguments; matmul_weight is the operand of the
\* matmul of line 21.
BinaryForward(input, weight, bias, needs) ==
    LET weight_mask == [i \in 1..Len(weight) |->
                           [j \in 1..Len(weight[1]) |-> Masked(weight[i][j])]]
        weight_q == [i \in 1..Len(weight) |->
                        [j \in 1..Len(weight[1]) |-> Sign(weight[i][j])]]
        product == MatMul(input, Transpose(weight_q))
    IN  [raised |-> NoException,
         ctx |-> [op |-> "BinaryLinearFunction", input |-> input, weight |-> weight_q,
                  weight_mask |-> weight_mask, bias |-> bias,
                  needs_input_grad |-> needs],
         matmul_weight |-> weight_q,
         output |-> IF bias # None THEN AddBias(product, bias.data) ELSE product]

\* grad_weight.masked_fill_(weight_mask, 0.0)
MaskedFill(G, mask) ==
    [i \in 1..Len(G) |-> [j \in 1..Len(G[1]) |-> IF mask[i][j] THEN 0 ELSE G[i][j]]]

\* A plausible slip: a zero tensor where no gradient is needed.
BinaryGradInputZeros(c, grad_output) ==
    IF c.needs_input_grad[1]
    THEN Tensor(MatMul(grad_output, c.weight))
    ELSE Tensor([i \in 1..Len(c.input) |-> [j \in 1..Len(c.input[1]) |-> 0]])

\* Lines 33, 35-36.
BinaryGradInput(c, grad_output) ==
    IF c.needs_input_grad[1] THEN Tensor(MatMul(grad_output, c.weight)) ELSE None

\* Lines 33, 38-41.
BinaryGradWeight(c, grad_output) ==
    IF c.needs_input_grad[2]
    THEN Tensor(MaskedFill(MatMul(Transpose(grad_output), c.input), c.weight_mask))
    ELSE None

\* Lines 33, 43-44.
BinaryGradBias(c, grad_output) ==
    IF c.bias # None /\ c.needs_input_grad[3]
    THEN Squeeze0(Sum0(grad_output))
    ELSE None

\* BinaryLinearFunction.backward(ctx, grad_output): the returned tuple.
BinaryBackward(c, grad_output) ==
    [grad_input |-> BinaryGradInput(c, grad_output),
     grad_weight |-> BinaryGradWeight(c, grad_output),
     grad_bias |-> BinaryGradBias(c, grad_output)]

(***************************************************************************)
(* IRLinearFunction and IRLinear.  Real numbers are fixed-point integers   *)
(* in units of 1/One, products and quotients truncated; the weights, the   *)
(* inputs and the output gradients are whole numbers.  NaN stands for a    *)
(* tensor all of whose elements are NaN, Inf for an infinite scalar; a     *)
(* matrix x that might have been NaN is Tensor(x).                         *)
(***************************************************************************)
One == 100
NaN == [nan |-> TRUE]
Inf == [inf |-> TRUE]

Abs(a) == IF a < 0 THEN -a ELSE a
TDiv(a, b) == IF (a < 0) = (b < 0) THEN Abs(a) \div Abs(b) ELSE -(Abs(a) \div Abs(b))
FMul(a, b) == TDiv(a * b, One)
FDiv(a, b) == TDiv(a * One, b)
ISqrt(x) == CHOOSE r \in 0..x : r * r <= x /\ (r + 1) * (r + 1) > x

\* The elements of a matrix, as a sequence.
RECURSIVE Flatten(_)
Flatten(A) == IF A = << >> THEN << >> ELSE Head(A) \o Flatten(Tail(A))

MapMatrix(A, F(_)) == [i \in 1..Len(A) |-> [j \in 1..Len(A[1]) |-> F(A[i][j])]]

\* torch.tanh on a fixed-point number: the Pade approximant
\* x (27 + x^2) / (27 + 9 x^2) on [0, 3], 1 above, odd.
TanhPos(x) ==
    IF x >= 3 * One THEN One
    ELSE (x * (27 * One * One + x * x)) \div (27 * One * One + 9 * x * x)
Tanh(x) == IF x < 0 THEN -TanhPos(-x) ELSE TanhPos(x)

\* Line 90: torch.mean(weight).
WeightMean(weight) == TDiv(SumSeq(Flatten(weight)) * One, Len(Flatten(weight)))

\* Line 91: torch.std(weight), the unbiased estimate; NaN for one element.
WeightStd(weight) ==
    LET xs == Flatten(weight)
        mean == WeightMean(weight)
    IN  IF Len(xs) = 1 THEN NaN
        ELSE Scalar(ISqrt(SumSeq([n \in 1..Len(xs) |->
                                     (xs[n] * One - mean) * (xs[n] * One - mean)])
                          \div (Len(xs) - 1)))

\* Line 92: (weight - weight_mean) / weight_std.  The deviation is zero in
\* every element when the standard deviation is: 0 / 0 is NaN.
WeightNorm(weight) ==
    LET mean == WeightMean(weight)
        std == WeightStd(weight)
        Normalize(w) == FDiv(w * One - mean, std.item)
    IN  IF std = NaN THEN NaN
        ELSE IF std.item = 0 THEN NaN
        ELSE Tensor(MapMatrix(weight, Normalize))

\* A plausible slip: min for max.
ControlMin(t) ==
    IF t.item = 0 THEN Inf
    ELSE Scalar(IF TDiv(One * One, t.item) < One THEN TDiv(One * One, t.item) ELSE One)

\* Line 95: k = torch.max(torch.Tensor([1/t, 1])), t a 0-dimensional tensor.
Control(t) ==
    IF t.item = 0 THEN Inf
    ELSE Scalar(IF TDiv(One * One, t.item) > One THEN TDiv(One * One, t.item) ELSE One)

\* Line 98: k * torch.tanh(t * weight_norm).  With k infinite t is 0 and the
\* product is inf * 0.
WeightB(k, t, weight_norm) ==
    LET EDE(w) == FMul(k.item, Tanh(FMul(t.item, w)))
    IN  IF weight_norm = NaN \/ k = Inf THEN NaN
        ELSE Tensor(MapMatrix(weight_norm.data, EDE))

\* IRLinearFunction.forward(ctx, input, weight, bias, t).  1/None raises
\* TypeError at line 95, before anything is saved.
IRForward(input, weight, bias, t, needs) ==
    IF t = None
    THEN [raised |-> "TypeError"]
    ELSE LET weight_std == WeightStd(weight)
             weight_norm == WeightNorm(weight)
             k == Control(t)
             weight_b == WeightB(k, t, weight_norm)
             product == IF weight_b = NaN THEN NaN
                        ELSE Tensor(MatMul(input, Transpose(weight_b.data)))
         IN  [raised |-> NoException,
              ctx |-> [op |-> "IRLinearFunction", input |-> input,
                       weight_b |-> weight_b, weight_norm |-> weight_norm,
                       bias |-> bias, weight_std |-> weight_std, t |-> t, k |-> k,
                       needs_input_grad |-> needs],
              matmul_weight |-> weight_b,
              output |-> IF product = NaN THEN NaN
                         ELSE IF bias # None
                         THEN Tensor(AddBias(product.data,
                                      [i \in 1..Len(bias.data) |-> bias.data[i] * One]))
                         ELSE product]

\* Lines 117, 119-120.
IRGradInput(c, grad_output) ==
    IF c.needs_input_grad[1]
    THEN IF c.weight_b = NaN THEN NaN ELSE Tensor(MatMul(grad_output, c.weight_b.data))
    ELSE None

\* Line 124: k * t * (1 - tanh(t * weight_norm)^2).
GradBinary(c) ==
    LET Slope(w) == FMul(FMul(c.k.item, c.t.item),
                         One - FMul(Tanh(FMul(c.t.item, w)), Tanh(FMul(c.t.item, w))))
    IN  IF c.weight_norm = NaN \/ c.k = Inf THEN NaN
        ELSE Tensor(MapMatrix(c.weight_norm.data, Slope))

\* Lines 117, 122-125.
IRGradWeight(c, grad_output) ==
    IF c.needs_input_grad[2]
    THEN LET grad_weight_b == MatMul(Transpose(grad_output), c.input)
             grad_binary == GradBinary(c)
         IN  IF grad_binary = NaN THEN NaN
             ELSE Tensor([i \in 1..Len(grad_weight_b) |->
                            [j \in 1..Len(grad_weight_b[1]) |->
                                grad_weight_b[i][j] * grad_binary.data[i][j]]])
    ELSE None

\* Lines 117, 127-128.
IRGradBias(c, grad_output) ==
    IF c.bias # None /\ c.needs_input_grad[3] THEN Tensor(Sum0(grad_output)) ELSE None

\* IRLinearFunction.backward(ctx, grad_output): the returned tuple.
IRBackward(c, grad_output) ==
    [grad_input |-> IRGradInput(c, grad_output),
     grad_weight |-> IRGradWeight(c, grad_output),
     grad_bias |-> IRGradBias(c, grad_output),
     t |-> None]

(***************************************************************************)
(* The layer under test.                                                   *)
(***************************************************************************)
\* ctx.needs_input_grad for a call with the layer's parameters: a bias of
\* None is no tensor and never needs a gradient.
NeedsOf(l, input_requires_grad) ==
    << input_requires_grad, l.weight_requires_grad,
       l.bias # None /\ l.bias_requires_grad >>

\* The inputs a layer accepts among the shapes explored.
InputsFor(l) ==
    UNION { Matrices(sh[1], l.in_features, 0..MaxX) :
              sh \in { x \in Shapes(l.type) :
                         x[2] = l.in_features /\ x[3] = l.out_features } }

\* The output gradients autograd passes for a context: the shape of the output.
GradOutputsFor(c) ==
    IF c = NoCtx THEN {}
    ELSE Matrices(Len(c.input), layer.out_features, GradValues)

\* What a completed or failed forward leaves in res: the arguments of the
\* call, and the quantized weight and the output when it returned.
ForwardResult(op, input, f) ==
    IF f.raised # NoException
    THEN [op |-> op, raised |-> f.raised, weight |-> layer.weight,
          bias |-> layer.bias, t |-> layer.t]
    ELSE [op |-> op, raised |-> NoException, input |-> input,
          weight |-> layer.weight, bias |-> layer.bias, t |-> layer.t,
          matmul_weight |-> f.matmul_weight, output |-> f.output]

\* Function.apply(input, self.weight, self.bias[, self.t]) of the layer's
\* function, lines 74 and 160.
Apply(input, input_requires_grad) ==
    IF layer.type = "BinarizedLinear"
    THEN BinaryForward(input, layer.weight, layer.bias, NeedsOf(layer, input_requires_grad))
    ELSE IRForward(input, layer.weight, layer.bias, layer.t,
                   NeedsOf(layer, input_requires_grad))

\* The function applied directly, without the layer's forward: the bias may
\* be None.
Function_apply(input, input_requires_grad) ==
    /\ layer.type \in Binarized
    /\ ctx = NoCtx
    /\ res = NoRes
    /\ LET f == Apply(input, input_requires_grad) IN
       /\ ctx' = IF f.raised = NoException THEN f.ctx ELSE ctx
       /\ res' = ForwardResult("apply", input, f)
    /\ UNCHANGED <<layer, model, calls, lastCall>>

\* A plausible slip: forward without the test for a missing bias.
forward_unchecked(input, input_requires_grad) ==
    /\ layer.type \in Binarized
    /\ ctx = NoCtx
    /\ res = NoRes
    /\ LET f == Apply(input, input_requires_grad) IN
       /\ ctx' = IF f.raised = NoException THEN f.ctx ELSE ctx
       /\ res' = ForwardResult("forward", input, f)
    /\ UNCHANGED <<layer, model, calls, lastCall>>

\* BinarizedLinear.forward(input), lines 72-76, and IRLinear.forward(input),
\* lines 158-162.
forward(input, input_requires_grad) ==
    /\ layer.type \in Binarized
    /\ ctx = NoCtx
    /\ res = NoRes
    /\ IF layer.bias # None
       THEN LET f == Apply(input, input_requires_grad) IN
            /\ ctx' = IF f.raised = NoException THEN f.ctx ELSE ctx
            /\ res' = ForwardResult("forward", input, f)
       ELSE /\ ctx' = ctx
            /\ res' = ForwardResult("forward", input, [raised |-> "Exception"])
    /\ UNCHANGED <<layer, model, calls, lastCall>>

\* The tuple backward returns for a saved context.
Grads(c, grad_output) ==
    IF c.op = "BinaryLinearFunction"
    THEN BinaryBackward(c, grad_output)
    ELSE IRBackward(c, grad_output)

\* A plausible slip: backward quantizing the layer's present weight instead
\* of using the saved one.
backward_requantizing(grad_output) ==
    /\ ctx # NoCtx
    /\ \E i \in 1..3 : ctx.needs_input_grad[i]
    /\ res' = [op |-> "backward", raised |-> NoException, forward |-> res,
               saved |-> ctx, grad_output |-> grad_output,
               grads |-> IF ctx.op = "BinaryLinearFunction"
                         THEN BinaryBackward(
                                 [ctx EXCEPT !.weight = MapMatrix(layer.weight, Sign)],
                                 grad_output)
                         ELSE IRBackward(
                                 [ctx EXCEPT !.weight_b =
                                     WeightB(Control(ctx.t), ctx.t, WeightNorm(layer.weight))],
                                 grad_output)]
    /\ ctx' = NoCtx
    /\ UNCHANGED <<layer, model, calls, lastCall>>

\* BinaryLinearFunction.backward, lines 28-46, and IRLinearFunction.backward,
\* lines 111-130: the autograd engine calls backward with the context of the
\* forward, once, when some argument needs a gradient; the context is then
\* released.
backward(grad_output) ==
    /\ ctx # NoCtx
    /\ \E i \in 1..3 : ctx.needs_input_grad[i]
    /\ res' = [op |-> "backward", raised |-> NoException, forward |-> res,
               saved |-> ctx, grad_output |-> grad_output,
               grads |-> Grads(ctx, grad_output)]
    /\ ctx' = NoCtx
    /\ UNCHANGED <<layer, model, calls, lastCall>>

\* The caller drops the result of the last operation.  A forward is taken
\* when no result is held: the layer keeps nothing of a pass but its
\* parameters.
release ==
    /\ res # NoRes
    /\ ctx = NoCtx
    /\ res' = NoRes
    /\ UNCHANGED <<layer, ctx, model, calls, lastCall>>

\* The training optimizer, between any two operations of the layer: the
\* first weight (and the first bias, when there is a bias) moves by d, within
\* the values explored.
optimizer_step(d) ==
    /\ layer.type \in Binarized
    /\ layer.weight[1][1] + d \in WeightValues(layer.type)
    /\ layer.bias # None => layer.bias.data[1] + d \in -1..1
    /\ layer' = [layer EXCEPT
          !.weight[1][1] = @ + d,
          !.bias = IF layer.bias = None THEN None
                   ELSE Tensor([layer.bias.data EXCEPT ![1] = @ + d])]
    /\ UNCHANGED <<ctx, res, model, calls, lastCall>>

\* The temperatures the caller assigns to IRLinear.t: -1, 0, 1/2, 1, 2.
Temperatures ==
    { Scalar(-One), Scalar(0), Scalar(One \div 2), Scalar(One), Scalar(2 * One) }

\* The caller assigns layer.t between two passes.
set_t(t) ==
    /\ layer.type = "IRLinear"
    /\ ctx = NoCtx /\ res = NoRes
    /\ layer.t # t
    /\ layer' = [layer EXCEPT !.t = t]
    /\ UNCHANGED <<ctx, res, model, calls, lastCall>>

\* The caller's annealing schedule doubles a positive layer.t, at any time.
anneal ==
    /\ layer.type = "IRLinear"
    /\ layer.t # None
    /\ layer.t.item > 0
    /\ Scalar(2 * layer.t.item) \in Temperatures
    /\ layer' = [layer EXCEPT !.t = Scalar(2 * layer.t.item)]
    /\ UNCHANGED <<ctx, res, model, calls, lastCall>>

\* reset_parameters(), lines 67-70 and 152-156, between two passes: t is None
\* again, the weight is drawn anew, the bias is zero.
reset_parameters(w) ==
    /\ layer.type \in Binarized
    /\ ctx = NoCtx /\ res = NoRes
    /\ layer' = [layer EXCEPT
          !.t = None,
          !.weight = w,
          !.bias = IF layer.bias = None THEN None
                   ELSE Tensor([i \in 1..layer.out_features |-> 0])]
    /\ UNCHANGED <<ctx, res, model, calls, lastCall>>

\* BinarizedLinear(in_features, out_features, bias), lines 54-65, and
\* IRLinear(in_features, out_features, bias), lines 138-150: the weight is
\* drawn by normal_(), the bias is zero or absent, t is None.  Parameters
\* require a gradient unless the caller has frozen them.
InitLayer ==
    /\ \E type \in Binarized, bias \in BOOLEAN, wg \in BOOLEAN, bg \in BOOLEAN :
         \E sh \in Shapes(type) : \E w \in Matrices(sh[3], sh[2], WeightValues(type)) :
            layer = [type |-> type, in_features |-> sh[2],
                     out_features |-> sh[3], weight |-> w,
                     bias |-> IF bias THEN Tensor([i \in 1..sh[3] |-> 0]) ELSE None,
                     t |-> None,
                     weight_requires_grad |-> wg,
                     bias_requires_grad |-> bias /\ bg]
    /\ ctx = NoCtx
    /\ res = NoRes
    /\ model = << >>
    /\ calls = 0
    /\ lastCall = NoCall

NextLayer ==
    \/ \E x \in InputsFor(layer), g \in BOOLEAN : forward(x, g)
    \/ \E x \in InputsFor(layer), g \in BOOLEAN : Function_apply(x, g)
    \/ \E go \in GradOutputsFor(ctx) : backward(go)
    \/ \E d \in {-1, 1} : optimizer_step(d)
    \/ \E t \in Temperatures : set_t(t)
    \/ anneal
    \/ \E w \in Matrices(layer.out_features, layer.in_features, WeightValues(layer.type)) :
          reset_parameters(w)
    \/ release

SpecLayer == InitLayer /\ [][NextLayer]_vars

(***************************************************************************)
(* Claims about the layers.                                                *)
(***************************************************************************)
IsSign == layer.type = "BinarizedLinear"
IsIR == layer.type = "IRLinear"

\* res is the result of a forward (through the layer or the function) that
\* returned.
Forwarded == res.op \in {"forward", "apply"} /\ res.raised = NoException
Backwarded == res.op = "backward"

\* sum over b of A[b][i] * B[b][j]
ColumnDot(A, i, B, j) == SumSeq([b \in 1..Len(A) |-> A[b][i] * B[b][j]])
\* sum over j of A[b][j] * B[o][j]
RowDot(A, b, B, o) == SumSeq([j \in 1..Len(A[b]) |-> A[b][j] * B[o][j]])

\* C3 (as claimed): forward on an IRLinear whose t is None, zero or negative
\* raises an error and produces no output.
C3_NonPositiveTFails ==
    (IsIR /\ res.op = "forward" /\ (res.t = None \/ (res.t # None /\ res.t.item <= 0)))
        => (res.raised # NoException /\ ctx = NoCtx)

\* C4: a layer of either type exists with no bias, and every forward on it
\* raises the layer's exception, whatever the input, saving no context and
\* producing no output.
C4_NoBiasForwardFails ==
    (res.op = "forward" /\ res.bias = None)
        => (res.raised = "Exception" /\ ctx = NoCtx)

\* C4 witness: an IRLinear constructed without a bias, with a positive t,
\* whose forward has just raised.
C4_Witness ==
    /\ IsIR /\ layer.bias = None
    /\ layer.t # None /\ layer.t.item > 0
    /\ res.op = "forward" /\ res.raised = "Exception"

\* C5: in the backward of the sign binarizer, grad_weight[i][j] is 0 where
\* the weight given to forward is above 1 or below -1, and the plain
\* gradient (grad_output^T . input)[i][j] elsewhere; the saved mask is the
\* one of the weight given to forward.
C5_GradWeightClipped ==
    (Backwarded /\ res.saved.op = "BinaryLinearFunction"
                /\ res.saved.needs_input_grad[2])
        => \A i \in 1..Len(res.forward.weight) :
             \A j \in 1..Len(res.forward.weight[i]) :
                LET w == res.forward.weight[i][j]
                    saturated == w > 1 \/ w < -1
                IN  /\ res.saved.weight_mask[i][j] = saturated
                    /\ res.grads.grad_weight.data[i][j] =
                          IF saturated THEN 0
                          ELSE ColumnDot(res.grad_output, i, res.forward.input, j)

\* C5 witness: a backward whose weight had one element above 1, where a
\* non-zero plain gradient was cleared, and one equal to 1, where it was kept.
C5_Witness ==
    /\ Backwarded /\ res.saved.op = "BinaryLinearFunction"
    /\ res.saved.needs_input_grad[2]
    /\ res.forward.weight = << <<2, 1>> >>
    /\ res.forward.input = << <<1, 1>> >>
    /\ res.grads.grad_weight.data[1][1] = 0
    /\ res.grads.grad_weight.data[1][2] # 0

\* sign as the claim states it.
ClaimSign(w) == IF w = 0 THEN 0 ELSE IF w > 0 THEN 1 ELSE -1

\* C6: a forward of the sign binarizer returns input . sign(weight)^T + bias,
\* the bias added to every row (and nothing added without a bias), with
\* sign(0) = 0, and leaves the layer's parameters as they were.
C6_SignForward ==
    [][ (IsSign /\ res = NoRes /\ res'.op \in {"forward", "apply"}
               /\ res'.raised = NoException)
        => /\ layer' = layer
           /\ res'.weight = layer.weight
           /\ Len(res'.output) = Len(res'.input)
           /\ \A b \in 1..Len(res'.input) :
                /\ Len(res'.output[b]) = layer.out_features
                /\ \A o \in 1..layer.out_features :
                     res'.output[b][o] =
                        RowDot(res'.input, b,
                               [i \in 1..Len(layer.weight) |->
                                  [j \in 1..Len(layer.weight[i]) |->
                                     ClaimSign(layer.weight[i][j])]], o)
                        + (IF layer.bias = None THEN 0 ELSE layer.bias.data[o]) ]_vars

\* C6 witness: a forward with weight (0, -2), bias 1 and input (1, 1) has
\* returned 0.
C6_Witness ==
    /\ IsSign /\ Forwarded /\ res.op = "forward"
    /\ res.weight = << <<0, -2>> >>
    /\ res.bias = Tensor(<<1>>)
    /\ res.input = << <<1, 1>> >>
    /\ res.output = << <<0>> >>

\* C7: backward of either binarizer returns None for grad_input, grad_weight
\* and grad_bias exactly when the argument needs no gradient, a tensor
\* otherwise, and the scaled-tanh backward returns None for t.
C7_NoGradientIsNone ==
    Backwarded =>
        /\ (res.grads.grad_input = None) = ~res.saved.needs_input_grad[1]
        /\ (res.grads.grad_weight = None) = ~res.saved.needs_input_grad[2]
        /\ (res.grads.grad_bias = None) = ~res.saved.needs_input_grad[3]
        /\ res.saved.needs_input_grad[3] =>
              (res.forward.bias # None /\ layer.bias_requires_grad)
        /\ res.saved.op = "IRLinearFunction" => res.grads.t = None

\* C7 witness: a scaled-tanh backward where only the weight needs a gradient
\* although the layer has a bias.
C7_Witness ==
    /\ Backwarded /\ res.saved.op = "IRLinearFunction"
    /\ res.forward.bias # None
    /\ res.saved.needs_input_grad = <<FALSE, TRUE, FALSE>>
    /\ res.grads.grad_input = None
    /\ res.grads.grad_weight # None
    /\ res.grads.grad_bias = None
    /\ res.grads.t = None

\* The control scalar as the claim states it: max(1/t, 1).
ClaimK(t) == IF TDiv(One * One, t) >= One THEN TDiv(One * One, t) ELSE One

\* k is max(1/t, 1), at least 1, and 1/t exactly when t <= 1.
ClaimControl(c) ==
    /\ c.k # Inf
    /\ c.k.item = ClaimK(c.t.item)
    /\ c.k.item >= One
    /\ (c.k.item = TDiv(One * One, c.t.item)) = (c.t.item <= One)

\* Every element of the quantized weight is a number of magnitude at most k.
ClaimBounded(c) ==
    /\ c.weight_b # NaN
    /\ \A i \in 1..Len(c.weight_b.data) : \A j \in 1..Len(c.weight_b.data[i]) :
          Abs(c.weight_b.data[i][j]) <= c.k.item

\* C8 (as claimed): for every positive t, k = max(1/t, 1) and every element
\* of the quantized weight has magnitude at most k.
C8_BoundedByK ==
    (ctx # NoCtx /\ ctx.op = "IRLinearFunction" /\ ctx.t.item > 0)
        => (ClaimControl(ctx) /\ ClaimBounded(ctx))

\* C8 (amended): for every positive t, k = max(1/t, 1); and when the
\* standard deviation of the weights is a positive number (more than one
\* weight, not all equal) every element of the quantized weight has
\* magnitude at most k.
C8_BoundedByKGivenSpread ==
    (ctx # NoCtx /\ ctx.op = "IRLinearFunction" /\ ctx.t.item > 0)
        => /\ ClaimControl(ctx)
           /\ (ctx.weight_std # NaN /\ ctx.weight_std.item > 0) => ClaimBounded(ctx)
           /\ (ctx.weight_std = NaN \/ (ctx.weight_std # NaN /\ ctx.weight_std.item = 0))
                 => ctx.weight_b = NaN

\* C8 witness: t = 1/2, k = 2, and an element of the quantized weight above 1.
C8_Witness ==
    /\ ctx # NoCtx /\ ctx.op = "IRLinearFunction"
    /\ ctx.t = Scalar(One \div 2) /\ ctx.k = Scalar(2 * One)
    /\ ctx.weight_b # NaN
    /\ \E i \in 1..Len(ctx.weight_b.data) : \E j \in 1..Len(ctx.weight_b.data[i]) :
          ctx.weight_b.data[i][j] > One

\* The gradient of the weight from the values a forward captured.
ClaimGradWeight(f, go) ==
    IF f.t = None \/ layer.type = "BinarizedLinear"
    THEN Tensor([i \in 1..Len(f.weight) |-> [j \in 1..Len(f.weight[i]) |->
                    IF Masked(f.weight[i][j]) THEN 0
                    ELSE ColumnDot(go, i, f.input, j)]])
    ELSE LET wn == WeightNorm(f.weight)
             k == Control(f.t)
         IN  IF wn = NaN \/ k = Inf THEN NaN
             ELSE Tensor([i \in 1..Len(f.weight) |-> [j \in 1..Len(f.weight[i]) |->
                    LET th == Tanh(FMul(f.t.item, wn.data[i][j]))
                    IN  ColumnDot(go, i, f.input, j)
                          * FMul(FMul(k.item, f.t.item), One - FMul(th, th))]])

\* The gradient of the input from the quantized weight of the forward matmul.
ClaimGradInput(f, go) ==
    IF layer.type = "IRLinear" /\ f.matmul_weight = NaN THEN NaN
    ELSE LET q == IF layer.type = "BinarizedLinear"
                  THEN f.matmul_weight ELSE f.matmul_weight.data
         IN  Tensor([b \in 1..Len(go) |-> [j \in 1..Len(q[1]) |->
                        SumSeq([o \in 1..Len(q) |-> go[b][o] * q[o][j]])]])

\* C9: with at most one forward in flight, a forward that returns leaves
\* exactly one saved context, holding its input and the quantized weight of
\* its matmul, and one that raises leaves none; the backward consumes that
\* context and computes grad_input and grad_weight from the values captured
\* at the forward, whatever the layer's weight and t have become since.
C9_BackwardUsesForwardValues ==
    /\ Forwarded =>
          /\ ctx # NoCtx
          /\ ctx.input = res.input
          /\ (IF IsSign THEN ctx.weight ELSE ctx.weight_b) = res.matmul_weight
          /\ IsIR => ctx.t = res.t
    /\ (res.op \in {"forward", "apply"} /\ res.raised # NoException) => ctx = NoCtx
    /\ Backwarded =>
          /\ ctx = NoCtx
          /\ res.forward.op \in {"forward", "apply"}
          /\ res.saved.input = res.forward.input
          /\ (IF IsSign THEN res.saved.weight ELSE res.saved.weight_b)
                = res.forward.matmul_weight
          /\ res.saved.needs_input_grad[1] =>
                res.grads.grad_input = ClaimGradInput(res.forward, res.grad_output)
          /\ res.saved.needs_input_grad[2] =>
                res.grads.grad_weight = ClaimGradWeight(res.forward, res.grad_output)

\* C9 witness: a sign backward after the optimizer has moved a weight across
\* zero since the forward, and the gradient of the input is the one of the
\* old sign.
C9_Witness ==
    /\ Backwarded /\ IsSign
    /\ res.forward.weight[1][1] = -1 /\ layer.weight[1][1] = 1
    /\ res.forward.matmul_weight[1][1] = -1
    /\ res.saved.needs_input_grad[1]
    /\ res.grad_output[1][1] = 1
    /\ res.grads.grad_input.data[1][1] = -1

====
